---- MODULE Spec2Model ----
(***************************************************************************)
(* Model of the reselling dashboard: the operations layer db_supabase.py   *)
(* (one operator per function, each taking the table it reads or writes    *)
(* and a flag saying whether the store call raised) and the request        *)
(* handlers of app.py (one action per store round trip of a handler, so    *)
(* that concurrent requests interleave between store calls).               *)
(*                                                                         *)
(* Monetary amounts are integers.  A nullable column holds NULL (the empty *)
(* set) or Some(v) (the singleton {v}).  Descriptive columns that no       *)
(* handler computes with (item_name, category, brand, notes, ...) are left *)
(* out of the rows.                                                        *)
(***************************************************************************)
EXTENDS Integers, Sequences, FiniteSets, TLC

VARIABLES
    inventory,   \* table inventory: a set of rows
    sales,       \* table sales: a set of rows
    pc,          \* per worker: the store call its request is about to make
    ctx,         \* per worker: the local variables of its request
    resp,        \* the response of the request that completed in the last step
    serial,      \* per table: how many rows the store has assigned an id to;
                 \* requests: how many requests have arrived
    tasks,       \* table tasks
    today,       \* the current date, as a day number
    shipments,   \* table shipments
    returns,     \* table returns
    settings,    \* table settings: rows of key and value
    call         \* the last call of an operation of db_supabase.py and its result

vars == <<inventory, sales, pc, ctx, resp, serial, tasks, today, shipments,
          returns, settings, call>>

\* what the inventory and sales handlers leave alone
notInventory == <<tasks, today, shipments, returns, settings, call>>

\* what the task handlers leave alone
notTasks == <<inventory, sales, pc, ctx, shipments, returns, settings, call>>

----------------------------------------------------------------------------
(* Bounds of the model *)

\* the number of requests the server is sent
MaxRequests == 3

\* the last day the clock reaches
MaxDay == 2

Workers == {"w1", "w2"}

----------------------------------------------------------------------------
(* Values *)

NULL == {}
Some(v) == {v}
TheValue(s) == CHOOSE v \in s : TRUE

\* float(str): the numbers a form can carry; float("") and float("x") raise
FloatOf == ("0" :> 0) @@ ("1" :> 1) @@ ("2" :> 2) @@ ("3" :> 3) @@ ("4" :> 4)
           @@ ("5" :> 5) @@ ("6" :> 6) @@ ("7" :> 7) @@ ("8" :> 8) @@ ("9" :> 9)
IsFloat(s) == s \in DOMAIN FloatOf
Float(s) == FloatOf[s]

\* Python truthiness of a float: 0.0 is falsy
TruthyNum(x) == x # 0

\* request.form.get(k) or None
OrNone(s) == IF s = "" THEN NULL ELSE Some(s)

\* dates are ISO strings; date(...).isoformat() and the order of dates
IsoDates == <<"2024-01-01", "2024-01-02", "2024-01-03", "2024-01-04",
              "2024-01-05", "2024-01-06", "2024-01-07", "2024-01-08">>
IsoFormat(day) == IsoDates[day]
DayOf(iso) == CHOOSE day \in 1..Len(IsoDates) : IsoDates[day] = iso

\* datetime.now().isoformat(), as fine as the clock of the model
NowIso == IsoFormat(today)

\* a date that is not the clock's
StaleIso == IsoFormat(Len(IsoDates))

\* the update with the updated_at the caller gave left in place
StampedUnlessGiven(data) == data @@ [updated_at |-> Some(NowIso)]

\* data['updated_at'] = datetime.now().isoformat(): over what the caller gave
Stamped(data) == [updated_at |-> Some(NowIso)] @@ data

\* the store assigns every inserted row an id no earlier row had
FreshId(table) == serial[table] + 1
Assigned(table, result) ==
    IF result # NULL THEN [serial EXCEPT ![table] = @ + 1] ELSE serial

----------------------------------------------------------------------------
(* The record store: insert, update-by-id, delete-by-id *)

InventoryColumns == {"id", "updated_at", "sku", "listing_status", "purchase_price",
                     "fees_estimate", "shipping_paid_by", "shipping_cost",
                     "sale_price", "profit", "roi_percent", "date_sold"}

SalesColumns == {"id", "updated_at", "platform", "sale_price", "platform_fees",
                 "payment_processing_fees",
                 "shipping_cost", "buyer_paid_shipping", "net_profit",
                 "date_sold", "inventory_id"}

\* table(...).insert(data): the columns data does not name are NULL
InsertRow(columns, data, id) ==
    [k \in columns |-> IF k = "id" THEN id
                       ELSE IF k \in DOMAIN data THEN data[k] ELSE NULL]

\* a merge that never overwrites the listing_status of the row
MergeRowFirstWins(row, data) ==
    [k \in DOMAIN row |-> IF k \in DOMAIN data /\ k # "listing_status" THEN data[k]
                          ELSE row[k]]

\* table(...).update(data).eq('id', id): a partial merge into the matching rows
MergeRow(row, data) ==
    [k \in DOMAIN row |-> IF k \in DOMAIN data THEN data[k] ELSE row[k]]

StoreUpdate(table, id, data) ==
    {IF r.id = id THEN MergeRow(r, data) ELSE r : r \in table}

StoreDelete(table, id) == {r \in table : r.id # id}

----------------------------------------------------------------------------
(* db_supabase.py: inventory and sales *)

\* .single() raises unless exactly one row matches; the except returns None
db_get_inventory_by_sku(inv, sku, fail) ==
    LET rows == {i \in inv : i.sku = sku}
    IN  IF fail \/ Cardinality(rows) # 1 THEN NULL ELSE rows

db_get_inventory_by_id(inv, inventory_id, fail) ==
    LET rows == {i \in inv : i.id = inventory_id}
    IN  IF fail \/ Cardinality(rows) # 1 THEN NULL ELSE rows

db_add_inventory_item(inv, item_data, id, fail) ==
    IF fail THEN [result |-> NULL, table |-> inv]
    ELSE LET row == InsertRow(InventoryColumns, item_data, id)
         IN  [result |-> Some(row), table |-> inv \cup {row}]

db_update_inventory_item(inv, inventory_id, item_data, fail) ==
    IF fail THEN [result |-> FALSE, table |-> inv]
    ELSE [result |-> TRUE, table |-> StoreUpdate(inv, inventory_id, Stamped(item_data))]

db_delete_inventory_item(inv, inventory_id, fail) ==
    IF fail THEN [result |-> FALSE, table |-> inv]
    ELSE [result |-> TRUE, table |-> StoreDelete(inv, inventory_id)]

db_add_sale(sls, sale_data, id, fail) ==
    IF fail THEN [result |-> NULL, table |-> sls]
    ELSE LET row == InsertRow(SalesColumns, sale_data, id)
         IN  [result |-> Some(row), table |-> sls \cup {row}]

----------------------------------------------------------------------------
(* app.py: what the handlers compute *)

\* app.py add_inventory: item_data built from the form
AddInventoryItemData(form) ==
    [sku              |-> form.sku,
     listing_status   |-> form.listing_status,
     purchase_price   |-> Float(form.purchase_price),
     fees_estimate    |-> Float(form.fees_estimate),
     shipping_paid_by |-> form.shipping_paid_by,
     shipping_cost    |-> Float(form.shipping_cost)]

AddInventoryFormOk(form) ==
    /\ IsFloat(form.purchase_price)
    /\ IsFloat(form.fees_estimate)
    /\ IsFloat(form.shipping_cost)

\* app.py edit_inventory: profit, as line 179 computes it
ItemProfit(sale_price, purchase_price, fees_estimate, shipping_paid_by, shipping_cost) ==
    sale_price - purchase_price - fees_estimate
        - (IF shipping_paid_by = "Seller" THEN shipping_cost ELSE 0)

\* (profit / purchase_price) * 100, kept exact as numerator and denominator
RoiPercent(profit, purchase_price) ==
    [num |-> profit * 100, den |-> purchase_price]

\* app.py edit_inventory: float(x) if x else None
EditSalePrice(form) ==
    IF form.sale_price # "" THEN Some(Float(form.sale_price)) ELSE NULL

EditInventoryFormOk(form) ==
    /\ IsFloat(form.purchase_price)
    /\ IsFloat(form.fees_estimate)
    /\ IsFloat(form.shipping_cost)
    /\ form.sale_price # "" => IsFloat(form.sale_price)

\* app.py edit_inventory: item_data, with profit and roi_percent added only
\* under the two ifs
EditInventoryItemData(form) ==
    LET base == [listing_status   |-> form.listing_status,
                 purchase_price   |-> Float(form.purchase_price),
                 fees_estimate    |-> Float(form.fees_estimate),
                 shipping_paid_by |-> form.shipping_paid_by,
                 shipping_cost    |-> Float(form.shipping_cost),
                 sale_price       |-> EditSalePrice(form),
                 date_sold        |-> OrNone(form.date_sold)]
        hasSale == base.sale_price # NULL /\ TruthyNum(TheValue(base.sale_price))
        profit == ItemProfit(TheValue(base.sale_price), base.purchase_price,
                             base.fees_estimate, base.shipping_paid_by,
                             base.shipping_cost)
    IN  IF ~hasSale THEN base
        ELSE IF base.purchase_price > 0
             THEN base @@ [profit |-> Some(profit),
                           roi_percent |-> Some(RoiPercent(profit, base.purchase_price))]
             ELSE base @@ [profit |-> Some(profit)]

\* the shipping cost subtracted whoever paid it
NetProfitAlwaysShipping(sale_price, platform_fees, payment_processing_fees, shipping_cost, buyer_paid_shipping) ==
    sale_price - platform_fees - payment_processing_fees - shipping_cost

\* app.py add_sale: net profit, lines 270-271
NetProfit(sale_price, platform_fees, payment_processing_fees, shipping_cost, buyer_paid_shipping) ==
    LET shipping == IF ~buyer_paid_shipping THEN shipping_cost ELSE 0
    IN  sale_price - platform_fees - payment_processing_fees - shipping

AddSaleFormOk(form) ==
    /\ IsFloat(form.sale_price)
    /\ IsFloat(form.platform_fees)
    /\ IsFloat(form.payment_processing_fees)
    /\ IsFloat(form.shipping_cost)

\* app.py add_sale: sale_data before the inventory link
AddSaleData(form) ==
    LET sp == Float(form.sale_price)
        pf == Float(form.platform_fees)
        ppf == Float(form.payment_processing_fees)
        sc == Float(form.shipping_cost)
        bps == (form.buyer_paid_shipping = "on")
    IN  [platform                |-> form.platform,
         sale_price              |-> sp,
         platform_fees           |-> pf,
         payment_processing_fees |-> ppf,
         shipping_cost           |-> sc,
         buyer_paid_shipping     |-> bps,
         date_sold               |-> Some(form.date_sold),
         net_profit              |-> NetProfit(sp, pf, ppf, sc, bps)]

\* the update without the sale price
SoldUpdateNoPrice(sale_data) ==
    [listing_status |-> "Sold",
     date_sold      |-> sale_data.date_sold]

\* app.py add_sale: the update sent to the linked inventory item
SoldUpdate(sale_data) ==
    [listing_status |-> "Sold",
     date_sold      |-> sale_data.date_sold,
     sale_price     |-> Some(sale_data.sale_price)]

----------------------------------------------------------------------------
(* Requests *)

\* the local state of a request; resp is this record when the request ends
NoCtx == [handler  |-> "none",
          form     |-> <<>>,   \* the submitted form
          data     |-> <<>>,   \* item_data / sale_data / task_data
          flashes  |-> <<>>,   \* the categories flashed, in order
          redirect |-> "",     \* the endpoint redirected to
          writes   |-> 0,      \* store mutations that went through
          matched  |-> FALSE,  \* an item carried the submitted sku at submission
          target   |-> NULL,   \* the inventory id the request addresses
          sale     |-> NULL]   \* the id of the sale row the request inserted

Idle(w) == pc[w] = "idle"

NoSerial == [inventory |-> 0, sales |-> 0, tasks |-> 0, shipments |-> 0,
             returns |-> 0, requests |-> 0]

NoCall == [op |-> "none", id |-> NULL, data |-> <<>>, failed |-> FALSE,
           result |-> NULL, changed |-> FALSE]

\* a request of worker w ends: its response is observable for one step
Finish(w, c) ==
    /\ pc' = [pc EXCEPT ![w] = "idle"]
    /\ ctx' = [ctx EXCEPT ![w] = NoCtx]
    /\ resp' = [c EXCEPT !.data = <<>>]

Continue(w, at, c) ==
    /\ pc' = [pc EXCEPT ![w] = at]
    /\ ctx' = [ctx EXCEPT ![w] = c]
    /\ resp' = NoCtx

Flash(c, category) == [c EXCEPT !.flashes = Append(@, category)]

\* a request arrives
CanStart == serial.requests < MaxRequests
Started == [serial EXCEPT !.requests = @ + 1]

----------------------------------------------------------------------------
(* app.py add_inventory (POST) *)

\* lines 106-132: build item_data, look the sku up, stop with a warning if found
add_inventory_lookup(w, form, fail) ==
    /\ Idle(w)
    /\ CanStart
    /\ UNCHANGED <<inventory, sales, notInventory>>
    /\ serial' = Started
    /\ LET c0 == [NoCtx EXCEPT !.handler = "add_inventory", !.form = form,
                               !.redirect = "inventory",
                               !.matched = (\E i \in inventory : i.sku = form.sku)]
       IN  IF ~AddInventoryFormOk(form)
           THEN Finish(w, Flash(c0, "danger"))
           ELSE LET item_data == AddInventoryItemData(form)
                    existing == db_get_inventory_by_sku(inventory, item_data.sku, fail)
                IN  IF existing # NULL
                    THEN Finish(w, Flash(c0, "warning"))
                    ELSE Continue(w, "add_inventory_insert",
                                  [c0 EXCEPT !.data = item_data])

\* lines 134-140: insert, flash by the result
add_inventory_insert(w, fail) ==
    /\ pc[w] = "add_inventory_insert"
    /\ LET c == ctx[w]
           r == db_add_inventory_item(inventory, c.data, FreshId("inventory"), fail)
       IN  /\ inventory' = r.table
           /\ serial' = Assigned("inventory", r.result)
           /\ UNCHANGED <<sales, notInventory>>
           /\ IF r.result # NULL
              THEN Finish(w, Flash([c EXCEPT !.writes = @ + 1,
                                             !.target = Some(TheValue(r.result).id)],
                                   "success"))
              ELSE Finish(w, Flash(c, "danger"))

----------------------------------------------------------------------------
(* app.py edit_inventory (POST) and delete_inventory: one store call each *)

edit_inventory(item_id, form, fail) ==
    /\ CanStart
    /\ serial' = Started
    /\ UNCHANGED <<sales, pc, ctx, notInventory>>
    /\ LET c0 == [NoCtx EXCEPT !.handler = "edit_inventory", !.form = form,
                               !.redirect = "inventory",
                               !.target = Some(item_id)]
       IN  IF ~EditInventoryFormOk(form)
           THEN /\ UNCHANGED inventory
                /\ resp' = Flash(c0, "danger")
           ELSE LET r == db_update_inventory_item(inventory, item_id,
                                                  EditInventoryItemData(form), fail)
                IN  /\ inventory' = r.table
                    /\ resp' = IF r.result
                               THEN Flash([c0 EXCEPT !.writes = 1], "success")
                               ELSE Flash(c0, "danger")

delete_inventory(item_id, fail) ==
    /\ CanStart
    /\ serial' = Started
    /\ UNCHANGED <<sales, pc, ctx, notInventory>>
    /\ LET c0 == [NoCtx EXCEPT !.handler = "delete_inventory",
                               !.redirect = "inventory",
                               !.target = Some(item_id)]
           r == db_delete_inventory_item(inventory, item_id, fail)
       IN  /\ inventory' = r.table
           /\ resp' = IF r.result
                      THEN Flash([c0 EXCEPT !.writes = 1], "success")
                      ELSE Flash(c0, "danger")

----------------------------------------------------------------------------
(* app.py add_sale (POST) *)

\* lines 253-278: build sale_data, link it to the item carrying inventory_sku
add_sale_lookup(w, form, fail) ==
    /\ Idle(w)
    /\ CanStart
    /\ UNCHANGED <<inventory, sales, notInventory>>
    /\ serial' = Started
    /\ LET c0 == [NoCtx EXCEPT !.handler = "add_sale", !.form = form,
                               !.redirect = "sales",
                               !.matched = (\E i \in inventory : i.sku = form.inventory_sku)]
       IN  IF ~AddSaleFormOk(form)
           THEN Finish(w, Flash(c0, "danger"))
           ELSE LET sale_data == AddSaleData(form)
                    inventory_item ==
                        IF form.inventory_sku # ""
                        THEN db_get_inventory_by_sku(inventory, form.inventory_sku, fail)
                        ELSE NULL
                IN  IF inventory_item # NULL
                    THEN Continue(w, "add_sale_insert",
                            [c0 EXCEPT !.data = sale_data @@
                                           [inventory_id |-> Some(TheValue(inventory_item).id)],
                                       !.target = Some(TheValue(inventory_item).id)])
                    ELSE Continue(w, "add_sale_insert", [c0 EXCEPT !.data = sale_data])

\* lines 280-294: insert the sale; on success flash, and go on to the item if linked
add_sale_insert(w, fail) ==
    /\ pc[w] = "add_sale_insert"
    /\ UNCHANGED <<inventory, notInventory>>
    /\ LET c == ctx[w]
           r == db_add_sale(sales, c.data, FreshId("sales"), fail)
       IN  /\ sales' = r.table
           /\ serial' = Assigned("sales", r.result)
           /\ IF r.result # NULL
              THEN LET c1 == Flash([c EXCEPT !.writes = @ + 1,
                                             !.sale = Some(TheValue(r.result).id)],
                                   "success")
                   IN  IF "inventory_id" \in DOMAIN c.data
                       THEN Continue(w, "add_sale_update", c1)
                       ELSE Finish(w, c1)
              ELSE Finish(w, Flash(c, "danger"))

\* the request reporting the failure of the update of the item
add_sale_update_reported(w, fail) ==
    /\ pc[w] = "add_sale_update"
    /\ UNCHANGED <<sales, serial, notInventory>>
    /\ LET c == ctx[w]
           r == db_update_inventory_item(inventory, TheValue(c.data.inventory_id),
                                         SoldUpdate(c.data), fail)
       IN  /\ inventory' = r.table
           /\ Finish(w, IF r.result THEN [c EXCEPT !.writes = @ + 1]
                                    ELSE [c EXCEPT !.flashes = <<"danger">>])

\* lines 285-290: mark the linked item Sold; the result is not looked at
add_sale_update(w, fail) ==
    /\ pc[w] = "add_sale_update"
    /\ UNCHANGED <<sales, serial, notInventory>>
    /\ LET c == ctx[w]
           r == db_update_inventory_item(inventory, TheValue(c.data.inventory_id),
                                         SoldUpdate(c.data), fail)
       IN  /\ inventory' = r.table
           /\ Finish(w, IF r.result THEN [c EXCEPT !.writes = @ + 1] ELSE c)

----------------------------------------------------------------------------
(* Inputs *)

SKUs == {"A", "B"}

AddInventoryForms ==
    [sku : SKUs, listing_status : {"Draft"}, purchase_price : {"2", ""},
     fees_estimate : {"1"}, shipping_paid_by : {"Seller"}, shipping_cost : {"1"}]

EditInventoryForms ==
    [listing_status : {"Listed"}, purchase_price : {"2"}, fees_estimate : {"1"},
     shipping_paid_by : {"Seller"}, shipping_cost : {"1"},
     sale_price : {"", "7"}, date_sold : {""}]

AddSaleForms ==
    [sale_price : {"5", ""}, platform_fees : {"1"}, payment_processing_fees : {"0"},
     shipping_cost : {"1"}, buyer_paid_shipping : {"on", ""},
     date_sold : {"2024-01-01"}, inventory_sku : SKUs \cup {""},
     platform : {"Vinted"}]

\* the ids a request url can carry: those of the rows, and one no row has
UrlItemIds == {i.id : i \in inventory} \cup {FreshId("inventory")}

----------------------------------------------------------------------------
(* Specification of the inventory and sales handlers *)

Init ==
    /\ inventory = {}
    /\ sales = {}
    /\ serial = NoSerial
    /\ pc = [w \in Workers |-> "idle"]
    /\ ctx = [w \in Workers |-> NoCtx]
    /\ resp = NoCtx
    /\ tasks = {}
    /\ today = 1
    /\ shipments = {}
    /\ returns = {}
    /\ settings = {}
    /\ call = NoCall

AddInventory ==
    \E w \in Workers, fail \in BOOLEAN :
        \/ \E form \in AddInventoryForms : add_inventory_lookup(w, form, fail)
        \/ add_inventory_insert(w, fail)

EditInventory ==
    \E item_id \in UrlItemIds, form \in EditInventoryForms, fail \in BOOLEAN :
        edit_inventory(item_id, form, fail)

DeleteInventory ==
    \E item_id \in UrlItemIds, fail \in BOOLEAN : delete_inventory(item_id, fail)

AddSale ==
    \E w \in Workers, fail \in BOOLEAN :
        \/ \E form \in AddSaleForms : add_sale_lookup(w, form, fail)
        \/ add_sale_insert(w, fail)
        \/ add_sale_update(w, fail)

Next == AddInventory \/ EditInventory \/ DeleteInventory \/ AddSale

Spec == Init /\ [][Next]_vars

----------------------------------------------------------------------------
(* Specification of the derived amounts: one request at a time, the        *)
(* amounts of the forms drawn from wider sets                              *)

CalcAddInventoryForms ==
    [sku : {"A"}, listing_status : {"Draft"}, purchase_price : {"2"},
     fees_estimate : {"1"}, shipping_paid_by : {"Seller"}, shipping_cost : {"1"}]

CalcEditInventoryForms ==
    [listing_status : {"Listed"}, purchase_price : {"0", "2"},
     fees_estimate : {"1"}, shipping_paid_by : {"Buyer", "Seller"},
     shipping_cost : {"1"}, sale_price : {"", "0", "5"}, date_sold : {""}]

CalcAddSaleForms ==
    [sale_price : {"3", "5"}, platform_fees : {"1"},
     payment_processing_fees : {"2"}, shipping_cost : {"1"},
     buyer_paid_shipping : {"on", ""}, date_sold : {"2024-01-01"},
     inventory_sku : {"A", ""}, platform : {"Vinted"}]

CalcAddInventory ==
    \E fail \in BOOLEAN :
        \/ \E form \in CalcAddInventoryForms : add_inventory_lookup("w1", form, fail)
        \/ add_inventory_insert("w1", fail)

CalcEditInventory ==
    \E item_id \in UrlItemIds, form \in CalcEditInventoryForms, fail \in BOOLEAN :
        edit_inventory(item_id, form, fail)

CalcAddSale ==
    \E fail \in BOOLEAN :
        \/ \E form \in CalcAddSaleForms : add_sale_lookup("w1", form, fail)
        \/ add_sale_insert("w1", fail)
        \/ add_sale_update("w1", fail)

NextCalc == CalcAddInventory \/ CalcEditInventory \/ CalcAddSale

SpecCalc == Init /\ [][NextCalc]_vars

----------------------------------------------------------------------------
(* db_supabase.py: tasks *)

TasksColumns == {"id", "updated_at", "status", "priority", "due_date",
                 "completed_date"}

db_add_task(tbl, task_data, id, fail) ==
    IF fail THEN [result |-> NULL, table |-> tbl]
    ELSE LET row == InsertRow(TasksColumns, task_data, id)
         IN  [result |-> Some(row), table |-> tbl \cup {row}]

db_update_task(tbl, task_id, task_data, fail) ==
    IF fail THEN [result |-> FALSE, table |-> tbl]
    ELSE [result |-> TRUE, table |-> StoreUpdate(tbl, task_id, Stamped(task_data))]

db_delete_task(tbl, task_id, fail) ==
    IF fail THEN [result |-> FALSE, table |-> tbl]
    ELSE [result |-> TRUE, table |-> StoreDelete(tbl, task_id)]

----------------------------------------------------------------------------
(* app.py: add_task, update_task, delete_task: one store call each *)

\* date.today().isoformat()
TodayIso == IsoFormat(today)

AddTaskData(form) ==
    [priority |-> form.priority,
     status   |-> "Todo",
     due_date |-> OrNone(form.due_date)]

\* app.py update_task, lines 447-452: completed_date only under the if
UpdateTaskData(form) ==
    IF form.status = "Done" /\ form.completed_date = ""
    THEN [status |-> form.status, completed_date |-> Some(TodayIso)]
    ELSE [status |-> form.status]

add_task(form, fail) ==
    /\ CanStart
    /\ UNCHANGED <<today, notTasks>>
    /\ LET c0 == [NoCtx EXCEPT !.handler = "add_task", !.form = form,
                               !.redirect = "tasks"]
           r == db_add_task(tasks, AddTaskData(form), FreshId("tasks"), fail)
       IN  /\ tasks' = r.table
           /\ serial' = [Assigned("tasks", r.result) EXCEPT !.requests = @ + 1]
           /\ resp' = IF r.result # NULL
                      THEN Flash([c0 EXCEPT !.writes = 1,
                                            !.target = Some(TheValue(r.result).id)],
                                 "success")
                      ELSE Flash(c0, "danger")

update_task(task_id, form, fail) ==
    /\ CanStart
    /\ serial' = Started
    /\ UNCHANGED <<today, notTasks>>
    /\ LET c0 == [NoCtx EXCEPT !.handler = "update_task", !.form = form,
                               !.redirect = "tasks", !.target = Some(task_id)]
           r == db_update_task(tasks, task_id, UpdateTaskData(form), fail)
       IN  /\ tasks' = r.table
           /\ resp' = IF r.result
                      THEN Flash([c0 EXCEPT !.writes = 1], "success")
                      ELSE Flash(c0, "danger")

delete_task(task_id, fail) ==
    /\ CanStart
    /\ serial' = Started
    /\ UNCHANGED <<today, notTasks>>
    /\ LET c0 == [NoCtx EXCEPT !.handler = "delete_task",
                               !.redirect = "tasks", !.target = Some(task_id)]
           r == db_delete_task(tasks, task_id, fail)
       IN  /\ tasks' = r.table
           /\ resp' = IF r.result
                      THEN Flash([c0 EXCEPT !.writes = 1], "success")
                      ELSE Flash(c0, "danger")

\* midnight passes
Tick ==
    /\ today < MaxDay
    /\ today' = today + 1
    /\ resp' = NoCtx
    /\ UNCHANGED <<tasks, serial, notTasks>>

----------------------------------------------------------------------------
(* Specification of the task handlers *)

\* the dates a form can carry
FormDates == {IsoFormat(d) : d \in 1..MaxDay}

AddTaskForms == [priority : {"Medium"}, due_date : {""} \cup FormDates]

UpdateTaskForms ==
    [status : {"Todo", "In Progress", "Done"},
     completed_date : {""} \cup FormDates]

UrlTaskIds == {t.id : t \in tasks} \cup {FreshId("tasks")}

AddTask == \E form \in AddTaskForms, fail \in BOOLEAN : add_task(form, fail)

UpdateTask ==
    \E task_id \in UrlTaskIds, form \in UpdateTaskForms, fail \in BOOLEAN :
        update_task(task_id, form, fail)

DeleteTask == \E task_id \in UrlTaskIds, fail \in BOOLEAN : delete_task(task_id, fail)

NextTask == AddTask \/ UpdateTask \/ DeleteTask \/ Tick

SpecTask == Init /\ [][NextTask]_vars

----------------------------------------------------------------------------
(* The record store: select, in_, order, limit *)

\* the greatest id of a table
MaxId(table) ==
    IF table = {} THEN 0
    ELSE CHOOSE n \in {r.id : r \in table} : \A r \in table : r.id <= n

\* select('*'): the rows in the order they were inserted, which the store's
\* ids and created_at follow (<<>> \o f and <<>> @@ f are f, evaluated once)
ScanTo(table, n) ==
    LET rows == {r \in table : r.id <= n}
        ids == {r.id : r \in rows}
        at == <<>> @@ [i \in ids |-> Cardinality({j \in ids : j <= i})]
    IN  <<>> \o [p \in 1..Cardinality(ids) |-> CHOOSE r \in rows : at[r.id] = p]

Scan(table) == ScanTo(table, MaxId(table))

\* .order(...): a stable sort of the rows by their ranks in the ordering
\* columns (.eq and .in_ are SelectSeq)
SortRanked(s) ==
    LET rank == <<>> \o [i \in DOMAIN s |-> s[i].rank]
        at == <<>> \o [i \in DOMAIN s |->
                          Cardinality({j \in DOMAIN s :
                                          \/ rank[j] < rank[i]
                                          \/ rank[j] = rank[i] /\ j <= i})]
    IN  [p \in DOMAIN s |-> s[CHOOSE i \in DOMAIN s : at[i] = p]]

OrderBy(rows, ranks) ==
    LET s == SortRanked([i \in DOMAIN rows |-> [rank |-> ranks[i], row |-> rows[i]]])
    IN  <<>> \o [i \in DOMAIN s |-> s[i].row]

\* .limit(n)
Limit(rows, n) == SubSeq(rows, 1, IF n < Len(rows) THEN n ELSE Len(rows))

\* a date column ascending with the NULLs last; descending, with the NULLs
\* where the client library's default puts them
NullRank == Len(IsoDates) + 1
AscNullsLast(d) == IF d = NULL THEN NullRank ELSE DayOf(TheValue(d))
Desc(d, nullsfirst) ==
    IF d = NULL THEN (IF nullsfirst THEN 0 - NullRank ELSE 0)
    ELSE 0 - DayOf(TheValue(d))

\* created_at descending: the latest insert first
CreatedDesc(r) == 0 - r.id

\* the order of the priority column: the order of its text
PriorityRank(p) == CASE p = "High" -> 1 [] p = "Low" -> 2 [] p = "Medium" -> 3

\* limit: int = 50
DefaultLimit == 50

----------------------------------------------------------------------------
(* db_supabase.py: settings *)

db_get_setting(tbl, key, fail) ==
    LET rows == {s \in tbl : s.key = key}
    IN  IF fail \/ Cardinality(rows) # 1 THEN NULL
        ELSE Some(TheValue(rows).value)

\* the table replaced by the one row
db_set_setting_replace(tbl, key, value, fail) ==
    IF fail THEN [result |-> NULL, table |-> tbl]
    ELSE [result |-> NULL,
          table |-> {[key |-> key, value |-> value, updated_at |-> Some(NowIso)]}]

\* upsert on the key; the function returns nothing either way
db_set_setting(tbl, key, value, fail) ==
    IF fail THEN [result |-> NULL, table |-> tbl]
    ELSE [result |-> NULL,
          table |-> {s \in tbl : s.key # key}
                        \cup {[key |-> key, value |-> value,
                                updated_at |-> Some(NowIso)]}]

db_get_all_settings(tbl, fail) ==
    IF fail THEN <<>>
    ELSE [k \in {s.key : s \in tbl} |-> (CHOOSE s \in tbl : s.key = k).value]

----------------------------------------------------------------------------
(* db_supabase.py: the reads of inventory and sales *)

db_get_inventory(inv, limit, status, fail) ==
    IF fail THEN <<>>
    ELSE LET Matches(r) == status # "" => r.listing_status = status
             rows == SelectSeq(Scan(inv), Matches)
         IN  Limit(OrderBy(rows, [i \in DOMAIN rows |-> CreatedDesc(rows[i])]), limit)

InventoryCount(inv, status) == Cardinality({i \in inv : i.listing_status = status})

db_get_inventory_stats(inv, fail) ==
    IF fail THEN [total |-> 0, draft |-> 0, listed |-> 0, sold |-> 0, archived |-> 0]
    ELSE [total    |-> Cardinality(inv),
          draft    |-> InventoryCount(inv, "Draft"),
          listed   |-> InventoryCount(inv, "Listed"),
          sold     |-> InventoryCount(inv, "Sold"),
          archived |-> InventoryCount(inv, "Archived")]

db_get_sales(sls, limit, platform, nullsfirst, fail) ==
    IF fail THEN <<>>
    ELSE LET Matches(r) == platform # "" => r.platform = platform
             Rank(r) == Desc(r.date_sold, nullsfirst)
             rows == SelectSeq(Scan(sls), Matches)
         IN  Limit(OrderBy(rows, [i \in DOMAIN rows |-> Rank(rows[i])]), limit)

db_get_sale_by_id(sls, sale_id, fail) ==
    LET rows == {s \in sls : s.id = sale_id}
    IN  IF fail \/ Cardinality(rows) # 1 THEN NULL ELSE rows

db_update_sale(sls, sale_id, sale_data, fail) ==
    IF fail THEN [result |-> FALSE, table |-> sls]
    ELSE [result |-> TRUE, table |-> StoreUpdate(sls, sale_id, Stamped(sale_data))]

\* the delete carried out although the call fails
db_delete_sale_then_fail(sls, sale_id, fail) ==
    [result |-> ~fail, table |-> StoreDelete(sls, sale_id)]

db_delete_sale(sls, sale_id, fail) ==
    IF fail THEN [result |-> FALSE, table |-> sls]
    ELSE [result |-> TRUE, table |-> StoreDelete(sls, sale_id)]

\* sum(float(sale['net_profit'] or 0) for sale in result.data)
RECURSIVE TotalProfit(_)
TotalProfit(rows) ==
    IF rows = {} THEN 0
    ELSE LET s == CHOOSE x \in rows : TRUE
         IN  s.net_profit + TotalProfit(rows \ {s})

db_get_sales_stats(sls, days, fail) ==
    IF fail THEN [total_sales |-> 0, total_profit |-> 0, by_platform |-> <<>>,
                  days |-> days]
    ELSE LET start_date == today - days
             rows == {s \in sls : /\ s.date_sold # NULL
                                  /\ DayOf(TheValue(s.date_sold)) >= start_date}
         IN  [total_sales  |-> Cardinality(rows),
              total_profit |-> TotalProfit(rows),
              by_platform  |-> [p \in {s.platform : s \in rows} |->
                                    Cardinality({s \in rows : s.platform = p})],
              days         |-> days]

----------------------------------------------------------------------------
(* db_supabase.py: shipments *)

ShipmentsColumns == {"id", "updated_at", "status", "dispatch_deadline", "sale_id",
                     "shipped_date", "delivered_date"}

db_get_shipments(tbl, status, fail) ==
    IF fail THEN <<>>
    ELSE LET Matches(r) == status # "" => r.status = status
             rows == SelectSeq(Scan(tbl), Matches)
         IN  OrderBy(rows, [i \in DOMAIN rows |-> CreatedDesc(rows[i])])

db_get_pending_shipments(tbl, fail) ==
    IF fail THEN <<>>
    ELSE LET Matches(r) == r.status \in {"Pending Label", "Label Created"}
             Rank(r) == AscNullsLast(r.dispatch_deadline)
             rows == SelectSeq(Scan(tbl), Matches)
         IN  OrderBy(rows, [i \in DOMAIN rows |-> Rank(rows[i])])

db_add_shipment(tbl, shipment_data, id, fail) ==
    IF fail THEN [result |-> NULL, table |-> tbl]
    ELSE LET row == InsertRow(ShipmentsColumns, shipment_data, id)
         IN  [result |-> Some(row), table |-> tbl \cup {row}]

\* the update reporting whether a row had the id
db_update_shipment_matched(tbl, shipment_id, shipment_data, fail) ==
    IF fail THEN [result |-> FALSE, table |-> tbl]
    ELSE [result |-> \E r \in tbl : r.id = shipment_id,
          table |-> StoreUpdate(tbl, shipment_id, Stamped(shipment_data))]

db_update_shipment(tbl, shipment_id, shipment_data, fail) ==
    IF fail THEN [result |-> FALSE, table |-> tbl]
    ELSE [result |-> TRUE, table |-> StoreUpdate(tbl, shipment_id, Stamped(shipment_data))]

----------------------------------------------------------------------------
(* db_supabase.py: returns *)

ReturnsColumns == {"id", "updated_at", "status", "date_opened", "expected_loss"}

db_get_returns(tbl, status, nullsfirst, fail) ==
    IF fail THEN <<>>
    ELSE LET Matches(r) == status # "" => r.status = status
             Rank(r) == Desc(r.date_opened, nullsfirst)
             rows == SelectSeq(Scan(tbl), Matches)
         IN  OrderBy(rows, [i \in DOMAIN rows |-> Rank(rows[i])])

\* the open returns oldest first
db_get_open_returns_ascending(tbl, nullsfirst, fail) ==
    IF fail THEN <<>>
    ELSE LET Matches(r) == r.status \in {"Opened", "In Progress"}
             Rank(r) == AscNullsLast(r.date_opened)
             rows == SelectSeq(Scan(tbl), Matches)
         IN  OrderBy(rows, [i \in DOMAIN rows |-> Rank(rows[i])])

db_get_open_returns(tbl, nullsfirst, fail) ==
    IF fail THEN <<>>
    ELSE LET Matches(r) == r.status \in {"Opened", "In Progress"}
             Rank(r) == Desc(r.date_opened, nullsfirst)
             rows == SelectSeq(Scan(tbl), Matches)
         IN  OrderBy(rows, [i \in DOMAIN rows |-> Rank(rows[i])])

db_add_return(tbl, return_data, id, fail) ==
    IF fail THEN [result |-> NULL, table |-> tbl]
    ELSE LET row == InsertRow(ReturnsColumns, return_data, id)
         IN  [result |-> Some(row), table |-> tbl \cup {row}]

db_update_return(tbl, return_id, return_data, fail) ==
    IF fail THEN [result |-> FALSE, table |-> tbl]
    ELSE [result |-> TRUE, table |-> StoreUpdate(tbl, return_id, Stamped(return_data))]

----------------------------------------------------------------------------
(* db_supabase.py: the reads of tasks, and the dashboard *)

db_get_tasks(tbl, status, fail) ==
    IF fail THEN <<>>
    ELSE LET Matches(r) == status # "" => r.status = status
             Rank(r) == AscNullsLast(r.due_date)
             rows == SelectSeq(Scan(tbl), Matches)
         IN  OrderBy(rows, [i \in DOMAIN rows |-> Rank(rows[i])])

\* order by priority descending, then by due_date ascending with NULLs last
db_get_pending_tasks(tbl, fail) ==
    IF fail THEN <<>>
    ELSE LET Matches(r) == r.status \in {"Todo", "In Progress"}
             Rank(r) == (0 - PriorityRank(r.priority)) * (NullRank + 1)
                            + AscNullsLast(r.due_date)
             rows == SelectSeq(Scan(tbl), Matches)
         IN  OrderBy(rows, [i \in DOMAIN rows |-> Rank(rows[i])])

\* five store calls, each behind its own except
db_get_dashboard_stats(fail) ==
    [inventory         |-> db_get_inventory_stats(inventory, fail),
     sales_30d         |-> db_get_sales_stats(sales, 30, fail),
     pending_shipments |-> Len(db_get_pending_shipments(shipments, fail)),
     open_returns      |-> Len(db_get_open_returns(returns, FALSE, fail)),
     pending_tasks     |-> Len(db_get_pending_tasks(tasks, fail))]

----------------------------------------------------------------------------
(* The operations of db_supabase.py, called one at a time *)

\* the number of calls made
MaxCalls == 2

Tables == <<inventory, sales, shipments, returns, tasks, settings>>

CanCall == serial.requests < MaxCalls

\* the return of an operation called with an id, a key or a record
CalledOn(op, id, data, fail, result) ==
    call' = [op |-> op, id |-> id, data |-> data, failed |-> fail,
             result |-> result, changed |-> Tables' # Tables]

Called(op, fail, result) == CalledOn(op, NULL, <<>>, fail, result)

\* an operation that only reads
Read(op, fail, result) ==
    /\ CanCall
    /\ serial' = Started
    /\ UNCHANGED <<Tables, pc, ctx, resp, today>>
    /\ Called(op, fail, result)

\* what a call leaves alone besides the tables
notCall == <<pc, ctx, resp, today>>

\* the arguments the calls are made with
SettingKeys == {"currency"}
SettingValues == {"GBP", "EUR"}
Limits == {1, DefaultLimit}
ItemData ==
    {AddInventoryItemData(f) :
        f \in [sku : {"A"}, listing_status : {"Draft"}, purchase_price : {"2"},
               fees_estimate : {"1"}, shipping_paid_by : {"Seller"},
               shipping_cost : {"1"}]}
SaleData ==
    {AddSaleData(f) :
        f \in [sale_price : {"5"}, platform_fees : {"1"},
               payment_processing_fees : {"0"}, shipping_cost : {"1"},
               buyer_paid_shipping : {"on"}, date_sold : {"2024-01-01"},
               inventory_sku : {""}, platform : {"Vinted"}]}
ShipmentData == {[status |-> "Pending Label", dispatch_deadline |-> Some(TodayIso)]}
ReturnData == {[status |-> "Opened", date_opened |-> Some(TodayIso), expected_loss |-> 0]}
TaskData == {AddTaskData(f) : f \in [priority : {"Medium"}, due_date : {""}]}
\* a record as the caller built it, and with an updated_at of the caller's
WithGiven(records) == records \cup {d @@ [updated_at |-> Some(StaleIso)] : d \in records}
IdsOf(table, name) == {r.id : r \in table} \cup {FreshId(name)}

Call_get_setting ==
    \E key \in SettingKeys, fail \in BOOLEAN :
        Read("get_setting", fail, db_get_setting(settings, key, fail))

Call_set_setting ==
    \E key \in SettingKeys, value \in SettingValues, fail \in BOOLEAN :
        LET r == db_set_setting(settings, key, value, fail)
        IN  /\ CanCall
            /\ serial' = Started
            /\ settings' = r.table
            /\ UNCHANGED <<inventory, sales, shipments, returns, tasks, notCall>>
            /\ CalledOn("set_setting", Some(key), <<>>, fail, r.result)

Call_get_all_settings ==
    \E fail \in BOOLEAN :
        Read("get_all_settings", fail, db_get_all_settings(settings, fail))

Call_get_inventory ==
    \E limit \in Limits, status \in {"", "Draft"}, fail \in BOOLEAN :
        Read("get_inventory", fail, db_get_inventory(inventory, limit, status, fail))

Call_get_inventory_by_id ==
    \E id \in IdsOf(inventory, "inventory"), fail \in BOOLEAN :
        Read("get_inventory_by_id", fail, db_get_inventory_by_id(inventory, id, fail))

Call_get_inventory_by_sku ==
    \E sku \in SKUs, fail \in BOOLEAN :
        Read("get_inventory_by_sku", fail, db_get_inventory_by_sku(inventory, sku, fail))

Call_add_inventory_item ==
    \E data \in WithGiven(ItemData), fail \in BOOLEAN :
        LET r == db_add_inventory_item(inventory, data, FreshId("inventory"), fail)
        IN  /\ CanCall
            /\ serial' = [Assigned("inventory", r.result) EXCEPT !.requests = @ + 1]
            /\ inventory' = r.table
            /\ UNCHANGED <<sales, shipments, returns, tasks, settings, notCall>>
            /\ CalledOn("add_inventory_item", NULL, data, fail, r.result)

Call_update_inventory_item ==
    \E id \in IdsOf(inventory, "inventory"), data \in WithGiven({[listing_status |-> "Listed"]}),
       fail \in BOOLEAN :
        LET r == db_update_inventory_item(inventory, id, data, fail)
        IN  /\ CanCall
            /\ serial' = Started
            /\ inventory' = r.table
            /\ UNCHANGED <<sales, shipments, returns, tasks, settings, notCall>>
            /\ CalledOn("update_inventory_item", Some(id), data, fail, r.result)

Call_delete_inventory_item ==
    \E id \in IdsOf(inventory, "inventory"), fail \in BOOLEAN :
        LET r == db_delete_inventory_item(inventory, id, fail)
        IN  /\ CanCall
            /\ serial' = Started
            /\ inventory' = r.table
            /\ UNCHANGED <<sales, shipments, returns, tasks, settings, notCall>>
            /\ CalledOn("delete_inventory_item", Some(id), <<>>, fail, r.result)

Call_get_inventory_stats ==
    \E fail \in BOOLEAN :
        Read("get_inventory_stats", fail, db_get_inventory_stats(inventory, fail))

Call_get_sales ==
    \E limit \in Limits, platform \in {"", "Vinted"}, nullsfirst \in BOOLEAN,
       fail \in BOOLEAN :
        Read("get_sales", fail, db_get_sales(sales, limit, platform, nullsfirst, fail))

Call_get_sale_by_id ==
    \E id \in IdsOf(sales, "sales"), fail \in BOOLEAN :
        Read("get_sale_by_id", fail, db_get_sale_by_id(sales, id, fail))

Call_add_sale ==
    \E data \in WithGiven(SaleData), fail \in BOOLEAN :
        LET r == db_add_sale(sales, data, FreshId("sales"), fail)
        IN  /\ CanCall
            /\ serial' = [Assigned("sales", r.result) EXCEPT !.requests = @ + 1]
            /\ sales' = r.table
            /\ UNCHANGED <<inventory, shipments, returns, tasks, settings, notCall>>
            /\ CalledOn("add_sale", NULL, data, fail, r.result)

Call_update_sale ==
    \E id \in IdsOf(sales, "sales"), data \in WithGiven({[platform |-> "eBay"]}),
       fail \in BOOLEAN :
        LET r == db_update_sale(sales, id, data, fail)
        IN  /\ CanCall
            /\ serial' = Started
            /\ sales' = r.table
            /\ UNCHANGED <<inventory, shipments, returns, tasks, settings, notCall>>
            /\ CalledOn("update_sale", Some(id), data, fail, r.result)

Call_delete_sale ==
    \E id \in IdsOf(sales, "sales"), fail \in BOOLEAN :
        LET r == db_delete_sale(sales, id, fail)
        IN  /\ CanCall
            /\ serial' = Started
            /\ sales' = r.table
            /\ UNCHANGED <<inventory, shipments, returns, tasks, settings, notCall>>
            /\ CalledOn("delete_sale", Some(id), <<>>, fail, r.result)

Call_get_sales_stats ==
    \E days \in {0, 30}, fail \in BOOLEAN :
        Read("get_sales_stats", fail, db_get_sales_stats(sales, days, fail))

Call_get_shipments ==
    \E status \in {"", "Shipped"}, fail \in BOOLEAN :
        Read("get_shipments", fail, db_get_shipments(shipments, status, fail))

Call_get_pending_shipments ==
    \E fail \in BOOLEAN :
        Read("get_pending_shipments", fail, db_get_pending_shipments(shipments, fail))

Call_add_shipment ==
    \E data \in WithGiven(ShipmentData), fail \in BOOLEAN :
        LET r == db_add_shipment(shipments, data, FreshId("shipments"), fail)
        IN  /\ CanCall
            /\ serial' = [Assigned("shipments", r.result) EXCEPT !.requests = @ + 1]
            /\ shipments' = r.table
            /\ UNCHANGED <<inventory, sales, returns, tasks, settings, notCall>>
            /\ CalledOn("add_shipment", NULL, data, fail, r.result)

Call_update_shipment ==
    \E id \in IdsOf(shipments, "shipments"), data \in WithGiven({[status |-> "Shipped"]}),
       fail \in BOOLEAN :
        LET r == db_update_shipment(shipments, id, data, fail)
        IN  /\ CanCall
            /\ serial' = Started
            /\ shipments' = r.table
            /\ UNCHANGED <<inventory, sales, returns, tasks, settings, notCall>>
            /\ CalledOn("update_shipment", Some(id), data, fail, r.result)

Call_get_returns ==
    \E status \in {"", "Closed"}, nullsfirst \in BOOLEAN, fail \in BOOLEAN :
        Read("get_returns", fail, db_get_returns(returns, status, nullsfirst, fail))

Call_get_open_returns ==
    \E nullsfirst \in BOOLEAN, fail \in BOOLEAN :
        Read("get_open_returns", fail, db_get_open_returns(returns, nullsfirst, fail))

Call_add_return ==
    \E data \in WithGiven(ReturnData), fail \in BOOLEAN :
        LET r == db_add_return(returns, data, FreshId("returns"), fail)
        IN  /\ CanCall
            /\ serial' = [Assigned("returns", r.result) EXCEPT !.requests = @ + 1]
            /\ returns' = r.table
            /\ UNCHANGED <<inventory, sales, shipments, tasks, settings, notCall>>
            /\ CalledOn("add_return", NULL, data, fail, r.result)

Call_update_return ==
    \E id \in IdsOf(returns, "returns"), data \in WithGiven({[status |-> "Closed"]}),
       fail \in BOOLEAN :
        LET r == db_update_return(returns, id, data, fail)
        IN  /\ CanCall
            /\ serial' = Started
            /\ returns' = r.table
            /\ UNCHANGED <<inventory, sales, shipments, tasks, settings, notCall>>
            /\ CalledOn("update_return", Some(id), data, fail, r.result)

Call_get_tasks ==
    \E status \in {"", "Done"}, fail \in BOOLEAN :
        Read("get_tasks", fail, db_get_tasks(tasks, status, fail))

Call_get_pending_tasks ==
    \E fail \in BOOLEAN :
        Read("get_pending_tasks", fail, db_get_pending_tasks(tasks, fail))

Call_add_task ==
    \E data \in WithGiven(TaskData), fail \in BOOLEAN :
        LET r == db_add_task(tasks, data, FreshId("tasks"), fail)
        IN  /\ CanCall
            /\ serial' = [Assigned("tasks", r.result) EXCEPT !.requests = @ + 1]
            /\ tasks' = r.table
            /\ UNCHANGED <<inventory, sales, shipments, returns, settings, notCall>>
            /\ CalledOn("add_task", NULL, data, fail, r.result)

Call_update_task ==
    \E id \in IdsOf(tasks, "tasks"), data \in WithGiven({[status |-> "Done"]}),
       fail \in BOOLEAN :
        LET r == db_update_task(tasks, id, data, fail)
        IN  /\ CanCall
            /\ serial' = Started
            /\ tasks' = r.table
            /\ UNCHANGED <<inventory, sales, shipments, returns, settings, notCall>>
            /\ CalledOn("update_task", Some(id), data, fail, r.result)

Call_delete_task ==
    \E id \in IdsOf(tasks, "tasks"), fail \in BOOLEAN :
        LET r == db_delete_task(tasks, id, fail)
        IN  /\ CanCall
            /\ serial' = Started
            /\ tasks' = r.table
            /\ UNCHANGED <<inventory, sales, shipments, returns, settings, notCall>>
            /\ CalledOn("delete_task", Some(id), <<>>, fail, r.result)

Call_get_dashboard_stats ==
    \E fail \in BOOLEAN :
        Read("get_dashboard_stats", fail, db_get_dashboard_stats(fail))

NextDb ==
    \/ Call_get_setting \/ Call_set_setting \/ Call_get_all_settings
    \/ Call_get_inventory \/ Call_get_inventory_by_id \/ Call_get_inventory_by_sku
    \/ Call_add_inventory_item \/ Call_update_inventory_item
    \/ Call_delete_inventory_item \/ Call_get_inventory_stats
    \/ Call_get_sales \/ Call_get_sale_by_id \/ Call_add_sale \/ Call_update_sale
    \/ Call_delete_sale \/ Call_get_sales_stats
    \/ Call_get_shipments \/ Call_get_pending_shipments \/ Call_add_shipment
    \/ Call_update_shipment
    \/ Call_get_returns \/ Call_get_open_returns \/ Call_add_return
    \/ Call_update_return
    \/ Call_get_tasks \/ Call_get_pending_tasks \/ Call_add_task
    \/ Call_update_task \/ Call_delete_task
    \/ Call_get_dashboard_stats
    \/ Tick

SpecDb == Init /\ [][NextDb]_vars

----------------------------------------------------------------------------
(* Specification of the in-list reads, over tables of up to MaxRows rows *)

\* the number of rows of a table
MaxRows == 52

\* the ways the rows of a table are filled in
MaxSeed == 3

ShipmentStatuses == <<"Pending Label", "Label Created", "Shipped">>
ReturnStatuses == <<"Opened", "In Progress", "Closed">>
TaskStatuses == <<"Todo", "In Progress", "Done">>
Priorities == <<"Low", "Medium", "High">>

\* row i of a table: one row in every 10 * seed has the third status
StatusOfRow(statuses, i, seed) ==
    IF i % (10 * seed) = 0 THEN statuses[3] ELSE statuses[(i % 2) + 1]

DateOfRow(i, seed) ==
    IF i % 7 = 0 THEN NULL ELSE Some(IsoFormat(((i * seed) % MaxDay) + 1))

ShipmentRows(n, seed) ==
    {[id |-> i, status |-> StatusOfRow(ShipmentStatuses, i, seed),
      dispatch_deadline |-> DateOfRow(i, seed), sale_id |-> NULL,
      shipped_date |-> NULL, delivered_date |-> NULL, updated_at |-> NULL] :
        i \in 1..n}

ReturnRows(n, seed) ==
    {[id |-> i, status |-> StatusOfRow(ReturnStatuses, i, seed),
      date_opened |-> DateOfRow(i, seed), expected_loss |-> 0,
      updated_at |-> NULL] : i \in 1..n}

TaskRows(n, seed) ==
    {[id |-> i, status |-> StatusOfRow(TaskStatuses, i, seed),
      priority |-> Priorities[(i % 3) + 1],
      due_date |-> DateOfRow(i, seed), completed_date |-> NULL,
      updated_at |-> NULL] : i \in 1..n}

InitList ==
    /\ inventory = {}
    /\ sales = {}
    /\ pc = [w \in Workers |-> "idle"]
    /\ ctx = [w \in Workers |-> NoCtx]
    /\ resp = NoCtx
    /\ today = 1
    /\ settings = {}
    /\ call = NoCall
    /\ \E n \in 0..MaxRows, seed \in 1..MaxSeed :
          /\ shipments = ShipmentRows(n, seed)
          /\ returns = ReturnRows(n, seed)
          /\ tasks = TaskRows(n, seed)
          /\ serial = [NoSerial EXCEPT !.shipments = n, !.returns = n, !.tasks = n]

NextList == Call_get_pending_shipments \/ Call_get_open_returns \/ Call_get_pending_tasks

SpecList == InitList /\ [][NextList]_vars

----------------------------------------------------------------------------
(* app.py: update_shipping, add_return, update_settings *)

\* app.py update_shipping: the dates only when the form carries them
UpdateShippingData(form) ==
    LET base == [status |-> form.status]
        shipped == IF form.shipped_date # ""
                   THEN [shipped_date |-> Some(form.shipped_date)] ELSE <<>>
        delivered == IF form.delivered_date # ""
                     THEN [delivered_date |-> Some(form.delivered_date)] ELSE <<>>
    IN  base @@ shipped @@ delivered

update_shipping(shipment_id, form, fail) ==
    /\ CanStart
    /\ serial' = Started
    /\ UNCHANGED <<inventory, sales, returns, tasks, settings, pc, ctx, today, call>>
    /\ LET c0 == [NoCtx EXCEPT !.handler = "update_shipping", !.form = form,
                               !.redirect = "shipping", !.target = Some(shipment_id)]
           r == db_update_shipment(shipments, shipment_id, UpdateShippingData(form), fail)
       IN  /\ shipments' = r.table
           /\ resp' = IF r.result
                      THEN Flash([c0 EXCEPT !.writes = 1], "success")
                      ELSE Flash(c0, "danger")

\* app.py add_return: float(expected_loss) may raise
AddReturnData(form) ==
    [status        |-> form.status,
     date_opened   |-> OrNone(form.date_opened),
     expected_loss |-> Float(form.expected_loss)]

add_return(form, fail) ==
    /\ CanStart
    /\ UNCHANGED <<inventory, sales, shipments, tasks, settings, pc, ctx, today, call>>
    /\ LET c0 == [NoCtx EXCEPT !.handler = "add_return", !.form = form,
                               !.redirect = "returns"]
       IN  IF ~IsFloat(form.expected_loss)
           THEN /\ UNCHANGED returns
                /\ serial' = Started
                /\ resp' = Flash(c0, "danger")
           ELSE LET r == db_add_return(returns, AddReturnData(form), FreshId("returns"), fail)
                IN  /\ returns' = r.table
                    /\ serial' = [Assigned("returns", r.result) EXCEPT !.requests = @ + 1]
                    /\ resp' = IF r.result # NULL
                               THEN Flash([c0 EXCEPT !.writes = 1,
                                                     !.target = Some(TheValue(r.result).id)],
                                          "success")
                               ELSE Flash(c0, "danger")

\* app.py update_settings: the keys the loop goes through, in its order
SettingsKeys == <<"currency", "vinted_fee_percent", "ebay_fee_percent",
                  "depop_fee_percent", "paypal_fee_percent">>

\* the loop going through every field of the form
update_settings_begin_all_fields(w, form) ==
    /\ Idle(w)
    /\ CanStart
    /\ serial' = Started
    /\ UNCHANGED <<Tables, today, call>>
    /\ LET HasValue(k) == form[k] # ""
           c0 == [NoCtx EXCEPT !.handler = "update_settings", !.form = form,
                               !.redirect = "settings",
                               !.data = SelectSeq(SettingsKeys \o <<"app_name">>, HasValue)]
       IN  IF c0.data = <<>>
           THEN Finish(w, Flash(c0, "success"))
           ELSE Continue(w, "update_settings_set", c0)

\* the request arrives; the loop will call set_setting for the keys the form
\* carries with a value
update_settings_begin(w, form) ==
    /\ Idle(w)
    /\ CanStart
    /\ serial' = Started
    /\ UNCHANGED <<Tables, today, call>>
    /\ LET HasValue(k) == form[k] # ""
           c0 == [NoCtx EXCEPT !.handler = "update_settings", !.form = form,
                               !.redirect = "settings",
                               !.data = SelectSeq(SettingsKeys, HasValue)]
       IN  IF c0.data = <<>>
           THEN Finish(w, Flash(c0, "success"))
           ELSE Continue(w, "update_settings_set", c0)

\* one turn of the loop: set_setting returns nothing, the loop goes on
update_settings_set(w, fail) ==
    /\ pc[w] = "update_settings_set"
    /\ UNCHANGED <<inventory, sales, shipments, returns, tasks, serial, today, call>>
    /\ LET c == ctx[w]
           key == Head(c.data)
           r == db_set_setting(settings, key, c.form[key], fail)
           c1 == [c EXCEPT !.data = Tail(@),
                           !.writes = IF fail THEN @ ELSE @ + 1]
       IN  /\ settings' = r.table
           /\ IF c1.data = <<>>
              THEN Finish(w, Flash(c1, "success"))
              ELSE Continue(w, "update_settings_set", c1)

----------------------------------------------------------------------------
(* Specification of the ten mutating handlers, one request at a time *)

\* the number of requests sent to the ten handlers
MaxAppRequests == 3

AppCanStart == serial.requests < MaxAppRequests

AppAddInventoryForms ==
    [sku : {"A"}, listing_status : {"Draft"}, purchase_price : {"2", ""},
     fees_estimate : {"1"}, shipping_paid_by : {"Seller"}, shipping_cost : {"1"}]

AppEditInventoryForms ==
    [listing_status : {"Listed"}, purchase_price : {"2"}, fees_estimate : {"1"},
     shipping_paid_by : {"Seller"}, shipping_cost : {"1"},
     sale_price : {"7"}, date_sold : {""}]

AppAddSaleForms ==
    [sale_price : {"5"}, platform_fees : {"1"}, payment_processing_fees : {"0"},
     shipping_cost : {"1"}, buyer_paid_shipping : {"on"},
     date_sold : {"2024-01-01"}, inventory_sku : {"A", ""}, platform : {"Vinted"}]

UpdateShippingForms ==
    [status : {"Shipped"}, shipped_date : {"", "2024-01-02"}, delivered_date : {""}]

AddReturnForms ==
    [status : {"Opened"}, date_opened : {"2024-01-01"}, expected_loss : {"3", ""}]

AppAddTaskForms == [priority : {"Medium"}, due_date : {""}]

AppUpdateTaskForms == [status : {"Done"}, completed_date : {""}]

\* a settings form: listed keys with and without a value, and a key that is
\* not listed
SettingsForms ==
    [currency : {"", "EUR"}, vinted_fee_percent : {"", "5"},
     ebay_fee_percent : {""}, depop_fee_percent : {"", "7"},
     paypal_fee_percent : {""}, app_name : {"", "Shop"}]

\* the rows the settings table holds when the application starts
SeedSettings ==
    {[key |-> k[1], value |-> k[2], updated_at |-> NULL] :
        k \in {<<"app_name", "Awab Reselling Dashboard">>, <<"app_version", "2.0.0">>,
               <<"currency", "GBP">>, <<"vinted_fee_percent", "4">>}}

InitApp ==
    /\ inventory = {}
    /\ sales = {}
    /\ returns = {}
    /\ tasks = {}
    /\ shipments = ShipmentRows(1, 1)
    /\ settings \in {{}, SeedSettings}
    /\ serial = [NoSerial EXCEPT !.shipments = 1]
    /\ pc = [w \in Workers |-> "idle"]
    /\ ctx = [w \in Workers |-> NoCtx]
    /\ resp = NoCtx
    /\ today = 1
    /\ call = NoCall

AppAddInventory ==
    \E fail \in BOOLEAN :
        \/ /\ AppCanStart
           /\ \E form \in AppAddInventoryForms : add_inventory_lookup("w1", form, fail)
        \/ add_inventory_insert("w1", fail)

AppEditInventory ==
    /\ AppCanStart
    /\ \E item_id \in UrlItemIds, form \in AppEditInventoryForms, fail \in BOOLEAN :
          edit_inventory(item_id, form, fail)

AppDeleteInventory ==
    /\ AppCanStart
    /\ \E item_id \in UrlItemIds, fail \in BOOLEAN : delete_inventory(item_id, fail)

AppAddSale ==
    \E fail \in BOOLEAN :
        \/ /\ AppCanStart
           /\ \E form \in AppAddSaleForms : add_sale_lookup("w1", form, fail)
        \/ add_sale_insert("w1", fail)
        \/ add_sale_update("w1", fail)

UpdateShipping ==
    /\ AppCanStart
    /\ \E shipment_id \in IdsOf(shipments, "shipments"), form \in UpdateShippingForms,
          fail \in BOOLEAN :
          update_shipping(shipment_id, form, fail)

AddReturn ==
    /\ AppCanStart
    /\ \E form \in AddReturnForms, fail \in BOOLEAN : add_return(form, fail)

AppAddTask ==
    /\ AppCanStart
    /\ \E form \in AppAddTaskForms, fail \in BOOLEAN : add_task(form, fail)

AppUpdateTask ==
    /\ AppCanStart
    /\ \E task_id \in UrlTaskIds, form \in AppUpdateTaskForms, fail \in BOOLEAN :
          update_task(task_id, form, fail)

AppDeleteTask ==
    /\ AppCanStart
    /\ \E task_id \in UrlTaskIds, fail \in BOOLEAN : delete_task(task_id, fail)

UpdateSettings ==
    \/ /\ AppCanStart
       /\ \E form \in SettingsForms : update_settings_begin("w1", form)
    \/ \E fail \in BOOLEAN : update_settings_set("w1", fail)

NextApp ==
    \/ AppAddInventory \/ AppEditInventory \/ AppDeleteInventory \/ AppAddSale
    \/ UpdateShipping \/ AddReturn
    \/ AppAddTask \/ AppUpdateTask \/ AppDeleteTask
    \/ UpdateSettings

SpecApp == InitApp /\ [][NextApp]_vars

----------------------------------------------------------------------------
(* Claims about the inventory and sales handlers *)

\* C1: no two inventory items share a sku, after any interleaving of
\* add_inventory requests, also when a lookup fails at the store.
C1_SkuUnique ==
    \A i, j \in inventory : i.sku = j.sku => i = j

\* C2: an add_inventory request whose sku an item already carries performs no
\* insert, leaves the inventory as it was, and ends with a warning and a
\* redirect.
C2_DuplicateSkuRejected ==
    (resp.handler = "add_inventory" /\ AddInventoryFormOk(resp.form) /\ resp.matched)
        => /\ resp.writes = 0
           /\ resp.flashes = <<"warning">>
           /\ resp.redirect = "inventory"

\* the sale row a request inserted, and the item it addressed
SaleOf(r) == {s \in sales : Some(s.id) = r.sale}
ItemOf(r) == {i \in inventory : Some(i.id) = r.target}

\* the item carries what the sale says
MarkedSold(i, s) ==
    /\ i.listing_status = "Sold"
    /\ i.date_sold = s.date_sold
    /\ i.sale_price = Some(s.sale_price)

C6_NetProfit ==
    \A s \in sales :
        s.net_profit =
            IF s.buyer_paid_shipping
            THEN s.sale_price - s.platform_fees - s.payment_processing_fees
            ELSE s.sale_price - s.platform_fees - s.payment_processing_fees
                     - s.shipping_cost

C6_Witness ==
    \E s, t \in sales :
        /\ s.buyer_paid_shipping /\ s.shipping_cost > 0
        /\ ~t.buyer_paid_shipping /\ t.shipping_cost > 0

----------------------------------------------------------------------------
(* Claims about the derived amounts of an inventory item *)

\* the item an edit_inventory request that went through wrote to
Edited(r) ==
    IF r.handler = "edit_inventory" /\ r.writes = 1 THEN ItemOf(r) ELSE {}

\* C4: an item edited with a sale_price set, 0 included, has profit =
\* sale_price - purchase_price - fees_estimate - (shipping_cost if the seller
\* pays the shipping); with no sale_price set, profit and roi_percent are not
\* written.
C4_ProfitOnEdit ==
    \A i \in Edited(resp) :
        resp.form.sale_price # ""
            => i.profit = Some(Float(resp.form.sale_price)
                               - Float(resp.form.purchase_price)
                               - Float(resp.form.fees_estimate)
                               - (IF resp.form.shipping_paid_by = "Seller"
                                  THEN Float(resp.form.shipping_cost) ELSE 0))

\* C5: after an edit_inventory with sale_price set, roi_percent is
\* 100 * profit / purchase_price when the submitted purchase_price > 0, and
\* absent otherwise.  (Stated for a sale_price other than 0: that case is C4's.)
C5_RoiOnEdit ==
    \A i \in Edited(resp) :
        resp.form.sale_price \notin {"", "0"}
            => IF Float(resp.form.purchase_price) > 0
               THEN /\ i.profit # NULL
                    /\ i.roi_percent =
                          Some([num |-> 100 * TheValue(i.profit),
                                den |-> Float(resp.form.purchase_price)])
               ELSE i.roi_percent = NULL

----------------------------------------------------------------------------
(* Claims about the task handlers *)

TaskOf(r) == {t \in tasks : Some(t.id) = r.target}

\* C7: once a task has a completed_date, no later update_task request changes
\* it (a repeated update to Done, or Done -> In Progress -> Done, included).
C7_CompletedDateSetOnce ==
    [][\A t \in tasks : \A u \in tasks' :
          (t.completed_date # NULL /\ u.id = t.id)
              => u.completed_date = t.completed_date]_vars

\* C8: update_task to Done with no completed_date in the request leaves the
\* task with the current date as completed_date; with a completed_date d in
\* the request it leaves the task with completed_date d.
C8_CompletedDateOnDone ==
    (resp.handler = "update_task" /\ resp.writes = 1 /\ resp.form.status = "Done")
        => \A t \in TaskOf(resp) :
              t.completed_date =
                  IF resp.form.completed_date = ""
                  THEN Some(IsoFormat(today)) ELSE Some(resp.form.completed_date)

----------------------------------------------------------------------------
(* Claims about the in-list reads *)

InListOps == {"get_pending_shipments", "get_open_returns", "get_pending_tasks"}

\* the rows of the table the last call read that carry one of its statuses
InListMatching ==
    CASE call.op = "get_pending_shipments" ->
            {r \in shipments : r.status \in {"Pending Label", "Label Created"}}
      [] call.op = "get_open_returns" ->
            {r \in returns : r.status \in {"Opened", "In Progress"}}
      [] call.op = "get_pending_tasks" ->
            {r \in tasks : r.status \in {"Todo", "In Progress"}}

\* row a may come before row b in the order the last call asked for
InListInOrder(a, b) ==
    CASE call.op = "get_pending_shipments" ->
            /\ a.dispatch_deadline = NULL => b.dispatch_deadline = NULL
            /\ (a.dispatch_deadline # NULL /\ b.dispatch_deadline # NULL)
                  => DayOf(TheValue(a.dispatch_deadline))
                        <= DayOf(TheValue(b.dispatch_deadline))
      [] call.op = "get_open_returns" ->
            (a.date_opened # NULL /\ b.date_opened # NULL)
                => DayOf(TheValue(a.date_opened)) >= DayOf(TheValue(b.date_opened))
      [] call.op = "get_pending_tasks" ->
            /\ PriorityRank(a.priority) >= PriorityRank(b.priority)
            /\ a.priority = b.priority =>
                  /\ a.due_date = NULL => b.due_date = NULL
                  /\ (a.due_date # NULL /\ b.due_date # NULL)
                        => DayOf(TheValue(a.due_date)) <= DayOf(TheValue(b.due_date))

InListOrdered ==
    \A i \in 1..Len(call.result) : \A j \in (i + 1)..Len(call.result) :
        InListInOrder(call.result[i], call.result[j])

\* C9 as stated: a successful in-list read returns only rows whose status is
\* in its list, in the order of its column, and no more than the limit of 50
C9_InListReadWithinLimit ==
    (call.op \in InListOps /\ ~call.failed)
        => /\ \A i \in 1..Len(call.result) : call.result[i] \in InListMatching
           /\ InListOrdered
           /\ Len(call.result) <= DefaultLimit

\* C9 amended: a successful in-list read returns every row whose status is in
\* its list, each once and no other row, in the order of its column; no limit
\* is applied
C9_InListReadReturnsAllMatching ==
    (call.op \in InListOps /\ ~call.failed)
        => /\ {call.result[i] : i \in 1..Len(call.result)} = InListMatching
           /\ Len(call.result) = Cardinality(InListMatching)
           /\ InListOrdered

\* an in-list read that leaves rows out and returns more than 50
C9_Witness ==
    /\ call.op \in InListOps
    /\ ~call.failed
    /\ Len(call.result) > DefaultLimit
    /\ \E r \in shipments \cup returns \cup tasks : r \notin InListMatching

----------------------------------------------------------------------------
(* Claims about the operations of db_supabase.py when the store fails *)

ListOps == {"get_inventory", "get_sales", "get_shipments", "get_pending_shipments",
            "get_returns", "get_open_returns", "get_tasks", "get_pending_tasks",
            "get_all_settings"}

LookupOps == {"get_setting", "get_inventory_by_id", "get_inventory_by_sku",
              "get_sale_by_id"}

CreateOps == {"add_inventory_item", "add_sale", "add_shipment", "add_return",
              "add_task", "set_setting"}

UpdateOps == {"update_inventory_item", "update_sale", "update_shipment",
              "update_return", "update_task"}

DeleteOps == {"delete_inventory_item", "delete_sale", "delete_task"}

ZeroInventoryStats == [total |-> 0, draft |-> 0, listed |-> 0, sold |-> 0, archived |-> 0]

ZeroSalesStats(r) ==
    /\ r.total_sales = 0
    /\ r.total_profit = 0
    /\ DOMAIN r.by_platform = {}

\* C10: a call whose store request failed has returned (nothing is raised to
\* the caller) the default of its kind: a list or dictionary read the empty
\* one, a lookup or create nothing (set_setting returns nothing either way),
\* an update or delete false, a statistics read its zeros; and no table has
\* changed
C10_FailureDefaults ==
    call.failed =>
        /\ ~call.changed
        /\ CASE call.op \in ListOps -> DOMAIN call.result = {}
             [] call.op \in LookupOps \cup CreateOps -> call.result = NULL
             [] call.op \in UpdateOps \cup DeleteOps -> call.result = FALSE
             [] call.op = "get_inventory_stats" -> call.result = ZeroInventoryStats
             [] call.op = "get_sales_stats" -> ZeroSalesStats(call.result)
             [] call.op = "get_dashboard_stats" ->
                    /\ call.result.inventory = ZeroInventoryStats
                    /\ ZeroSalesStats(call.result.sales_30d)
                    /\ call.result.pending_shipments = 0
                    /\ call.result.open_returns = 0
                    /\ call.result.pending_tasks = 0
             [] OTHER -> FALSE

\* a failed delete of a sale that is there
C10_Witness ==
    /\ call.failed
    /\ call.op = "delete_sale"
    /\ sales # {}

----------------------------------------------------------------------------
(* Claims about the two writes of add_sale *)

\* C11: when the request of a worker ends at the update of the linked item
\* and that update failed (one write went through), the step changes neither
\* table, the sale of the request is in the table with the inventory_id the
\* request gave it, and the response carries the one message success and the
\* redirect; when the insert of the sale fails, the request ends there with
\* danger, without a step for the item, and the item is as it was
C11_SaleKeptWhenItemUpdateFails ==
    [][\A w \in Workers :
          /\ (pc[w] = "add_sale_update" /\ pc'[w] = "idle" /\ resp'.writes = 1)
                => /\ inventory' = inventory
                   /\ sales' = sales
                   /\ \E s \in sales' : /\ Some(s.id) = resp'.sale
                                        /\ s.inventory_id = ctx[w].data.inventory_id
                   /\ resp'.flashes = <<"success">>
                   /\ resp'.redirect = "sales"
          /\ (pc[w] = "add_sale_insert" /\ pc'[w] # pc[w] /\ sales' = sales)
                => /\ pc'[w] = "idle"
                   /\ inventory' = inventory
                   /\ resp'.flashes = <<"danger">>
                   /\ resp'.writes = 0]_vars

\* an add_sale response after a failed update of an item that is still there
C11_Witness ==
    /\ resp.handler = "add_sale"
    /\ resp.sale # NULL
    /\ resp.target # NULL
    /\ resp.writes = 1
    /\ \E i \in inventory : Some(i.id) = resp.target /\ i.listing_status # "Sold"

----------------------------------------------------------------------------
(* Claims about add_sale beside edit_inventory *)

\* C12: the last update of an item wins, whatever other request is under way
\* or has ended: an edit_inventory whose update went through is answered with
\* success and leaves the item with the listing_status, sale_price and
\* date_sold of its form, also when a sale links to the item; an add_sale
\* whose update went through leaves it Sold with the sale's sale_price and
\* date_sold, also when an edit reached the item after the request's lookup
C12_LastWriteWins ==
    /\ (resp.handler = "edit_inventory" /\ resp.writes = 1)
          => /\ resp.flashes = <<"success">>
             /\ \A i \in ItemOf(resp) :
                   /\ i.listing_status = resp.form.listing_status
                   /\ i.sale_price = EditSalePrice(resp.form)
                   /\ i.date_sold = OrNone(resp.form.date_sold)
    /\ (resp.handler = "add_sale" /\ resp.writes = 2)
          => \A i \in ItemOf(resp) : \A s \in SaleOf(resp) :
                /\ i.listing_status = "Sold"
                /\ i.sale_price = Some(s.sale_price)
                /\ i.date_sold = s.date_sold

\* an edit has reached the item of a sale last: no request is under way, the
\* sale links to the item and the item is not Sold, with another sale_price
C12_Witness ==
    /\ \A w \in Workers : pc[w] = "idle"
    /\ resp.handler = "edit_inventory"
    /\ resp.writes = 1
    /\ \E i \in ItemOf(resp) : \E s \in sales :
          /\ s.inventory_id = Some(i.id)
          /\ i.listing_status # "Sold"
          /\ i.sale_price # Some(s.sale_price)

----------------------------------------------------------------------------
(* Claims about the ten mutating handlers *)

MutatingHandlers == {"add_inventory", "edit_inventory", "delete_inventory",
                     "add_sale", "update_shipping", "add_return", "add_task",
                     "update_task", "delete_task", "update_settings"}

\* the store writes the request of a response had to make
WritesDue(r) ==
    CASE r.handler = "add_sale" -> IF r.target # NULL THEN 2 ELSE 1
      [] r.handler = "update_settings" -> Len(SelectSeq(SettingsKeys, LAMBDA k : r.form[k] # ""))
      [] OTHER -> 1

\* C13: the response of a mutating handler carries exactly one message, of
\* severity success or danger, and a redirect; the message is success only
\* when the store writes of the request were performed
C13_OneMessagePerRequest ==
    resp.handler \in MutatingHandlers
        => /\ Len(resp.flashes) = 1
           /\ resp.flashes[1] \in {"success", "danger"}
           /\ resp.redirect # ""
           /\ resp.flashes[1] = "success" => resp.writes = WritesDue(resp)


\* the listed settings keys that the form of a response carries with a value
ListedWithValue(r) ==
    {k \in {"currency", "vinted_fee_percent", "ebay_fee_percent",
            "depop_fee_percent", "paypal_fee_percent"} : r.form[k] # ""}

\* C14 as stated: a request makes at most one store write, an add_sale
\* request at most two
C14_OneMutationPerRequest ==
    resp.handler \in MutatingHandlers
        => resp.writes <= (IF resp.handler = "add_sale" THEN 2 ELSE 1)

\* C14 amended: a request makes at most one store write, except an add_sale
\* request, which makes at most two (one when no item is linked), and an
\* update_settings request, which makes at most one upsert for each listed
\* key its form carries with a value, so up to five
C14_MutationsPerRequest ==
    resp.handler \in MutatingHandlers
        => resp.writes <=
              CASE resp.handler = "add_sale" -> (IF resp.target # NULL THEN 2 ELSE 1)
                [] resp.handler = "update_settings" -> Cardinality(ListedWithValue(resp))
                [] OTHER -> 1

\* an update_settings request that made three upserts
C14_Witness ==
    /\ resp.handler = "update_settings"
    /\ resp.writes = 3
    /\ Cardinality(ListedWithValue(resp)) = 3


----------------------------------------------------------------------------
(* Claims about update_settings *)

\* the value a settings table holds for a key: NULL when it has no such row
SettingOf(tbl, k) == {s.value : s \in {x \in tbl : x.key = k}}

SettingKeysOf(tbl) == {s.key : s \in tbl}

\* C15: a step changes or adds the value of a settings key only if a request
\* of update_settings is at its loop and the key is a listed key its form
\* carries with a value, and the new value is the form's; every other key
\* (app_name, app_version, a listed key the form lacks or carries empty) keeps
\* its value, and no key is deleted
C15_SettingsFrame ==
    [][/\ SettingKeysOf(settings) \subseteq SettingKeysOf(settings')
       /\ \A k \in SettingKeysOf(settings') :
             SettingOf(settings', k) # SettingOf(settings, k)
                => \E w \in Workers :
                      /\ pc[w] = "update_settings_set"
                      /\ k \in ListedWithValue(ctx[w])
                      /\ SettingOf(settings', k) = Some(ctx[w].form[k])]_vars

\* an update_settings request has written a listed key; its form carried
\* app_name and an empty currency, and both rows are as they were
C15_Witness ==
    /\ resp.handler = "update_settings"
    /\ resp.writes >= 1
    /\ resp.form.app_name = "Shop"
    /\ resp.form.currency = ""
    /\ resp.form.vinted_fee_percent = "5"
    /\ SettingOf(settings, "vinted_fee_percent") = Some("5")
    /\ SettingOf(settings, "app_name") = Some("Awab Reselling Dashboard")
    /\ SettingOf(settings, "currency") = Some("GBP")


----------------------------------------------------------------------------
(* Claims about updated_at *)

AddOps == {"add_inventory_item", "add_sale", "add_shipment", "add_return", "add_task"}

\* the table the last call wrote to
TableCalled ==
    CASE call.op \in {"add_inventory_item", "update_inventory_item"} -> inventory
      [] call.op \in {"add_sale", "update_sale"} -> sales
      [] call.op \in {"add_shipment", "update_shipment"} -> shipments
      [] call.op \in {"add_return", "update_return"} -> returns
      [] call.op \in {"add_task", "update_task"} -> tasks
      [] OTHER -> {}

\* the rows the last call addressed by id, or created
RowsCalled ==
    IF call.op \in AddOps
    THEN {r \in TableCalled : \E made \in call.result : r.id = made.id}
    ELSE {r \in TableCalled : Some(r.id) = call.id}

\* the last call was given an updated_at by its caller
GivenUpdatedAt == "updated_at" \in DOMAIN call.data

\* what update_* and set_setting do at a call that goes through: the rows
\* addressed carry the time of the call as updated_at
StampedByCall ==
    /\ call.op \in UpdateOps => \A r \in RowsCalled : r.updated_at = Some(NowIso)
    /\ call.op = "set_setting"
          => \A s \in settings : Some(s.key) = call.id => s.updated_at = Some(NowIso)

\* C16 as stated: after a call of add_*, update_* or set_setting that goes
\* through, the record written carries the time of the call as updated_at,
\* whatever updated_at the caller passed
C16_UpdatedAtOnEveryWrite ==
    [][(serial'.requests # serial.requests /\ ~call'.failed)
          => /\ StampedByCall'
             /\ (call'.op \in AddOps /\ GivenUpdatedAt')
                   => \A r \in RowsCalled' : r.updated_at = Some(NowIso')]_vars

\* C16 amended: after a call of update_* or set_setting that goes through, the
\* record written carries the time of the call as updated_at, whatever
\* updated_at the caller passed; add_* hands the record to the store as it is:
\* the created record carries the updated_at the caller passed, and none of
\* the operation's making when the caller passed none
C16_UpdatedAtOnUpdate ==
    [][(serial'.requests # serial.requests /\ ~call'.failed)
          => /\ StampedByCall'
             /\ call'.op \in AddOps
                   => \A r \in RowsCalled' :
                         r.updated_at = IF GivenUpdatedAt' THEN call'.data.updated_at
                                        ELSE NULL]_vars

\* on the second day a task is updated by a caller that passed another
\* updated_at, and carries the second day
C16_Witness ==
    /\ call.op = "update_task"
    /\ ~call.failed
    /\ GivenUpdatedAt
    /\ today = 2
    /\ \E r \in RowsCalled : r.updated_at = Some(IsoFormat(2))


----------------------------------------------------------------------------
(* Claims about the derived amounts of every item *)

\* C17: every item with a sale_price has profit = sale_price - purchase_price
\* - fees_estimate - (shipping_cost if the seller pays the shipping), after
\* add_sale has copied a sale's sale_price onto it as after an edit
C17_ProfitOfEveryItem ==
    \A i \in inventory :
        i.sale_price # NULL
            => i.profit = Some(ItemProfit(TheValue(i.sale_price), i.purchase_price,
                                          i.fees_estimate, i.shipping_paid_by,
                                          i.shipping_cost))


----------------------------------------------------------------------------
(* Claims about updates and deletes of an id no record has *)

ByIdOps == {"update_inventory_item", "delete_inventory_item", "update_task",
            "delete_task", "update_shipment"}

\* before the step, no row of the table of the call had the id of the call
NoRecordHadId ==
    CASE call'.op \in {"update_inventory_item", "delete_inventory_item"} ->
            \A r \in inventory : Some(r.id) # call'.id
      [] call'.op \in {"update_task", "delete_task"} ->
            \A r \in tasks : Some(r.id) # call'.id
      [] call'.op = "update_shipment" ->
            \A r \in shipments : Some(r.id) # call'.id
      [] OTHER -> FALSE

\* C18: an update or delete by an id that no record has, when the store raises
\* no error, returns true and leaves every table as it was
C18_TrueForMissingId ==
    [][(serial'.requests # serial.requests /\ call'.op \in ByIdOps
            /\ ~call'.failed /\ NoRecordHadId)
          => /\ call'.result = TRUE
             /\ Tables' = Tables]_vars

\* delete_task has returned true for an id that none of the tasks had
C18_Witness ==
    /\ call.op = "delete_task"
    /\ ~call.failed
    /\ call.result = TRUE
    /\ ~call.changed
    /\ tasks # {}

====
